---------------------------- MODULE Spec2Model ----------------------------
(***************************************************************************)
(* The connection pool of src/conn/pool.rs as a state machine.             *)
(*                                                                         *)
(* InnerPool {pool, min, max, count} is guarded by one Mutex paired with   *)
(* one Condvar.  Client threads call Pool::get_conn, Pool::try_get_conn,   *)
(* Pool::prepare (Pool::prep_exec acquires the same way, through           *)
(* get_conn_by_stmt) and Pool::start_transaction, which all go through     *)
(* Pool::_get_conn, and they drop or unwrap the PooledConn handles they    *)
(* hold.                                                                   *)
(*                                                                         *)
(* Everything _get_conn does between two points where it gives the mutex   *)
(* up is one action: the MutexGuard `pool` of _get_conn lives to the end   *)
(* of the function, so the mutex is released only by Condvar::wait /       *)
(* wait_timeout and by the return.  Conn::ping and Conn::reset are I/O     *)
(* done with the guard alive; they are steps of their own, taken with the  *)
(* mutex held.                                                             *)
(*                                                                         *)
(* Time is discrete.  elapsed[t] is `SteadyTime::now() - start` of the     *)
(* running try_get_conn call of t, saturated one past the timeout (the     *)
(* code only compares it with the timeout); rem[t] is what is left of the  *)
(* running Condvar::wait_timeout of t.                                     *)
(*                                                                         *)
(* Spec starts from a constructed pool.  SpecNew is the constructor,        *)
(* InnerPool::new, from its arguments to its result.  SpecPanic adds the    *)
(* panics of the Conn code under the guard, which poison the mutex.         *)
(* SpecUrl is Opts::from_url of src/conn/opts.rs applied to a URL text.     *)
(***************************************************************************)
EXTENDS Integers, Sequences, FiniteSets, TLC

\* ------------------------------------------------------------------ bounds
NumThreads == 2
MaxMax == 2
MaxTimeout == 1
MaxUnwrapped == 1
NumQueries == 1
\* The largest min and max handed to Pool::new_manual.
MaxArg == 4

\* The longest path and the most query pairs of the URLs given to from_url.
MaxPathLen == 2
MaxPairs == 2

\* The bounds Pool::new passes to new_manual.
DefaultMin == 10
DefaultMax == 100

\* The port of the mysql scheme and of Opts::default.
DefaultPort == 3306

Threads == 1..NumThreads
Timeouts == 1..MaxTimeout
Queries == 1..NumQueries
\* Enough identities for max pooled connections, the unwrapped ones and a spare.
ConnIds == 1..(MaxMax + MaxUnwrapped + 1)

\* Option::None of `conn: Option<Conn>`, of `id` and of the mutex having no holder.
NoConn == 0
NoId == 0
NoThread == 0
NoQuery == 0
\* No URL given, nothing returned by from_url yet.
NoUrl == <<>>
NoOpts == <<>>

Ops == {"get_conn", "try_get_conn", "prepare", "prep_exec", "start_transaction"}
Results == {"None", "Ok", "Timeout", "ConnErr", "ResetErr", "CmdErr",
            "InvalidPoolConstraints", "PoisonedPoolMutex"}

VARIABLES
    min, max, count, pool,  \* InnerPool (pool is the idle Vec<Conn>, tail = last pushed)
    mutex,                  \* the thread holding Mutex<InnerPool>, or NoThread
    pc,                     \* where each thread is
    op, query, timeout,     \* the running call of each thread and its arguments
    elapsed, rem,           \* now - start, and the rest of the running wait_timeout
    id,                     \* the affinity index `id` of _get_conn (1-based, NoId = None)
    cur,                    \* the connection a thread has taken and not yet wrapped or lost
    held,                   \* the connections inside the live handles of each thread
    wrapped,                \* connections whose handle lives inside a Stmt or Transaction
    unwrapped,              \* connections taken out of the pool by PooledConn::unwrap
    stmts,                  \* the statement cache of each connection
    result,                 \* what the last call of each thread returned
    poisoned,               \* the Mutex is poisoned: a holder panicked
    features,               \* the cargo features of the build
    url, opts               \* the argument of from_url and what it returned

vars == <<min, max, count, pool, mutex, pc, op, query, timeout, elapsed, rem, id,
          cur, held, wrapped, unwrapped, stmts, result, poisoned, features,
          url, opts>>

\* ----------------------------------------------------------------- helpers
Range(s) == {s[i] : i \in 1..Len(s)}

\* Mutant: the selection pops the tail whatever index it hands out.
RemoveLast(s, i) == [j \in 1..(Len(s) - 1) |-> s[j]]

\* Vec::remove(i), and Vec::pop when i is the last index.
RemoveAt(s, i) == [j \in 1..(Len(s) - 1) |-> IF j < i THEN s[j] ELSE s[j + 1]]

Minimum(S) == CHOOSE x \in S : \A y \in S : x <= y

HeldAll == UNION {held[t] : t \in Threads}

Taken == {cur[t] : t \in Threads} \ {NoConn}

\* Connections that exist: idle, in a handle, being checked out, or unwrapped.
Live == Range(pool) \cup HeldAll \cup Taken \cup unwrapped

FreeIds == ConnIds \ Live

Waiters == {t \in Threads : pc[t] = "wait"}

Timed(t) == op[t] = "try_get_conn"

\* idle is empty and no connection may be opened.
Exhausted == pool = <<>> /\ count >= max

Quiescent == \A t \in Threads : pc[t] = "idle"

TypeOK ==
    /\ min \in Nat /\ max \in Nat /\ count \in Nat
    /\ pool \in Seq(ConnIds)
    /\ mutex \in Threads \cup {NoThread}
    /\ pc \in [Threads -> {"idle", "lock", "wait", "woken", "ping", "reset", "cmd",
                           "new", "warm", "dead"}]
    /\ op \in [Threads -> Ops \cup {"none", "new", "new_manual"}]
    /\ query \in [Threads -> Queries \cup {NoQuery}]
    /\ timeout \in [Threads -> Timeouts \cup {0}]
    /\ elapsed \in [Threads -> 0..(MaxTimeout + 1)]
    /\ rem \in [Threads -> 0..MaxTimeout]
    /\ id \in [Threads -> 0..MaxMax]
    /\ cur \in [Threads -> ConnIds \cup {NoConn}]
    /\ held \in [Threads -> SUBSET ConnIds]
    /\ wrapped \subseteq ConnIds
    /\ unwrapped \subseteq ConnIds
    /\ stmts \in [ConnIds -> SUBSET Queries]
    /\ result \in [Threads -> Results]
    /\ poisoned \in BOOLEAN
    /\ features \subseteq {"ssl", "socket", "pipe"}

\* -------------------------------------------------------------------- Init
\* No thread has called into the pool, and no handle exists.
NoCalls ==
    /\ mutex = NoThread
    /\ query = [t \in Threads |-> NoQuery]
    /\ timeout = [t \in Threads |-> 0]
    /\ elapsed = [t \in Threads |-> 0]
    /\ rem = [t \in Threads |-> 0]
    /\ id = [t \in Threads |-> NoId]
    /\ cur = [t \in Threads |-> NoConn]
    /\ held = [t \in Threads |-> {}]
    /\ wrapped = {}
    /\ unwrapped = {}
    /\ stmts = [c \in ConnIds |-> {}]
    /\ result = [t \in Threads |-> "None"]
    /\ poisoned = FALSE

\* The state after Pool::new_manual(min, max, opts) succeeded: InnerPool::new
\* opened min connections, all idle, and no thread has called anything yet.
Init ==
    /\ max \in 1..MaxMax
    /\ min \in 0..max
    /\ count = min
    /\ pool = [i \in 1..min |-> i]
    /\ pc = [t \in Threads |-> "idle"]
    /\ op = [t \in Threads |-> "none"]
    /\ NoCalls
    /\ features = {}
    /\ url = NoUrl
    /\ opts = NoOpts


\* --------------------------------------------------------- InnerPool::new
\* Before construction: thread t is about to run Pool::new(opts) or
\* Pool::new_manual(min, max, opts); min and max are the arguments on their
\* way into InnerPool::new, and no connection exists.
InitNew ==
    /\ \E t \in Threads :
          /\ pc = [x \in Threads |-> IF x = t THEN "new" ELSE "idle"]
          /\ \/ /\ op = [x \in Threads |-> IF x = t THEN "new" ELSE "none"]
                /\ min = DefaultMin /\ max = DefaultMax
             \/ /\ op = [x \in Threads |-> IF x = t THEN "new_manual" ELSE "none"]
                /\ min \in 0..MaxArg /\ max \in 0..MaxArg
    /\ count = 0
    /\ pool = <<>>
    /\ NoCalls
    /\ features = {}
    /\ url = NoUrl
    /\ opts = NoOpts

\* Mutant: max = 0 is let through.
OnlyMinAboveMax == min > max

\* `min > max || max == 0`.
InvalidPoolConstraints == min > max \/ max = 0

\* Mutant: the loop opens one connection too few.
WarmOffByOne(n) == n + 1 >= min

\* `for _ in 0..min` is over once n connections are open.
Warm(n) == n >= min

\* new_manual returns r to thread t.
ReturnNew(t, r) ==
    /\ pc' = [pc EXCEPT ![t] = "idle"]
    /\ result' = [result EXCEPT ![t] = r]
    /\ op' = [op EXCEPT ![t] = "none"]

\* InnerPool::new up to its first Conn::new: the check of the bounds, the
\* empty InnerPool, and Ok at once when there is nothing to open.
New(t) ==
    /\ pc[t] = "new"
    /\ IF InvalidPoolConstraints
       THEN ReturnNew(t, "InvalidPoolConstraints")
       ELSE IF Warm(0)
       THEN ReturnNew(t, "Ok")
       ELSE pc' = [pc EXCEPT ![t] = "warm"] /\ UNCHANGED <<op, result>>
    /\ UNCHANGED <<features, url, opts, poisoned, min, max, count, pool, mutex, query, timeout,
                   elapsed, rem, id, cur, held, wrapped, unwrapped, stmts>>

\* One turn of the warm-up loop, `try!(pool.new_conn())`: the connection is
\* pushed and counted, and the pool is returned after the last one; on an
\* error the InnerPool built so far is dropped with its connections.
NewConn(t, connOk) ==
    /\ pc[t] = "warm"
    /\ IF connOk
       THEN /\ pool' = Append(pool, Len(pool) + 1)
            /\ count' = count + 1
            /\ IF Warm(count + 1) THEN ReturnNew(t, "Ok")
                                  ELSE UNCHANGED <<pc, op, result>>
       ELSE /\ pool' = <<>>
            /\ count' = 0
            /\ ReturnNew(t, "ConnErr")
    /\ UNCHANGED <<features, url, opts, poisoned, min, max, mutex, query, timeout, elapsed, rem,
                   id, cur, held, wrapped, unwrapped, stmts>>

NextNew ==
    \/ \E t \in Threads : New(t)
    \/ \E t \in Threads, connOk \in BOOLEAN : NewConn(t, connOk)

SpecNew == InitNew /\ [][NextNew]_vars

\* ------------------------------------------------- InnerPool and selection
\* Mutant: the bound on count is off by one.
CanOpenAtMax == count <= max

\* Mutant: max is not looked at.
CanOpenAlways == TRUE

\* Mutant: the last connection max allows is never opened.
CanOpenBelowMax == count + 1 < max

\* `pool.count < pool.max`: a new connection may be opened.
CanOpen == count < max

\* Mutant: the index recorded is one past the match.
ScanNext(q) ==
    LET hits == {i \in 1..Len(pool) : q \in stmts[pool[i]]}
    IN  IF q = NoQuery \/ hits = {} THEN NoId ELSE Minimum(hits) + 1

\* Mutant: the scan does not stop at the first match.
ScanLast(q) ==
    LET hits == {i \in 1..Len(pool) : q \in stmts[pool[i]]}
    IN  IF q = NoQuery \/ hits = {} THEN NoId
        ELSE CHOOSE i \in hits : \A j \in hits : i >= j

\* The affinity scan of _get_conn: the index of the first idle connection
\* whose cache has the statement, None without a statement or a match.
Scan(q) ==
    LET hits == {i \in 1..Len(pool) : q \in stmts[pool[i]]}
    IN  IF q = NoQuery \/ hits = {} THEN NoId ELSE Minimum(hits)

\* Mutant: without a usable index the head of idle is taken.
SelectFirst(p, i) == IF i # NoId /\ i <= Len(p) THEN i ELSE 1

\* The index selection takes from idle sequence p: `id` when it is Some and
\* within p, the last element otherwise.
SelectIndex(p, i) == IF i # NoId /\ i <= Len(p) THEN i ELSE Len(p)

\* Mutant: every entry point asks for the health check.
CallPingAlways(o) == TRUE

\* `call_ping` of each entry point.
CallPing(o) == o \in {"get_conn", "try_get_conn", "start_transaction"}

\* The entry points that go on with a command on the connection they got
\* (pooled_prepare, pooled_prep_exec, pooled_start_transaction).
HasCommand(o) == o \in {"prepare", "prep_exec", "start_transaction"}

\* Mutant: the budget counts as spent when it is just reached.
TimedOutAtBudget(t) == elapsed[t] >= timeout[t]

\* Mutant: the subtraction is the wrong way round, `start - now > timeout`.
TimedOutReversed(t) == 0 - elapsed[t] > timeout[t]

\* `SteadyTime::now() - start > timeout`.
TimedOut(t) == elapsed[t] > timeout[t]

\* The duration handed to Condvar::wait_timeout: std_timeout, the whole timeout.
WaitFor(t) == timeout[t]

\* Conn::reset reinitializes the connection; its statement cache starts empty.
AfterReset(c) == [stmts EXCEPT ![c] = {}]

\* Conn::_prepare caches the statement on the connection.
AfterPrepare(c, q) == [stmts EXCEPT ![c] = @ \cup ({q} \ {NoQuery})]

\* Mutant: a poisoned mutex is locked like any other.
LockFailsNever == FALSE

\* Mutex::lock, Condvar::wait and Condvar::wait_timeout return Err: a thread
\* panicked while it held the guard.
LockFails == poisoned

\* ----------------------------------------------------- Drop for PooledConn
\* Mutant: a connection is discarded already when count = min.
DiscardsAtMin(c) == count >= min \/ c = NoConn

\* `pool.count > pool.min || self.conn.is_none()`: the handle is not given back.
Discards(c) == count > min \/ c = NoConn

\* Mutant: an emptied handle is not taken off count unless count > min.
ReturnCountUnlessEmpty(c) == IF count > min THEN count - 1 ELSE count

\* Mutant: count is decremented on both branches.
ReturnCountAlways(c) == count - 1

ReturnCount(c) == IF Discards(c) THEN count - 1 ELSE count

ReturnPool(c) == IF Discards(c) THEN pool ELSE Append(pool, c)

\* Condvar::notify_one is called only on the branch that pushes.
Notifies(c) == ~Discards(c)

\* notify_one wakes one of the waiting threads, none when nobody waits.
WakeChoices(c) == IF Notifies(c) /\ Waiters # {} THEN Waiters ELSE {NoThread}

\* A discarded connection is closed, and its cache with it.
ReturnStmts(c) ==
    IF Discards(c) /\ c # NoConn THEN [stmts EXCEPT ![c] = {}] ELSE stmts

\* The drop of a handle of thread t whose slot holds c (NoConn after unwrap);
\* t goes on at newpc.
ReturnHandle(t, c, newpc) ==
    /\ mutex = NoThread
    /\ ~LockFails
    /\ count' = ReturnCount(c)
    /\ pool' = ReturnPool(c)
    /\ \E w \in WakeChoices(c) :
          /\ pc' = [x \in Threads |-> IF x = w THEN "woken"
                                      ELSE IF x = t THEN newpc ELSE pc[x]]
          /\ rem' = [x \in Threads |-> IF x = w THEN 0 ELSE rem[x]]
    /\ UNCHANGED <<features, url, opts, poisoned, min, max, mutex, elapsed, id>>

\* drop(handle), also of a Stmt, QueryResult or Transaction that owns one.
Drop(t, c) ==
    /\ pc[t] = "idle"
    /\ c \in held[t]
    /\ ReturnHandle(t, c, "idle")
    /\ held' = [held EXCEPT ![t] = @ \ {c}]
    /\ wrapped' = wrapped \ {c}
    /\ stmts' = ReturnStmts(c)
    /\ UNCHANGED <<op, query, timeout, cur, unwrapped, result>>

\* PooledConn::unwrap: takes the Conn out, then the emptied handle is dropped.
\* The caller owns the connection from then on; the model forgets its cache.
Unwrap(t, c) ==
    /\ pc[t] = "idle"
    /\ c \in held[t] \ wrapped
    /\ Cardinality(unwrapped) < MaxUnwrapped
    /\ ReturnHandle(t, NoConn, "idle")
    /\ held' = [held EXCEPT ![t] = @ \ {c}]
    /\ unwrapped' = unwrapped \cup {c}
    /\ stmts' = [stmts EXCEPT ![c] = {}]
    /\ UNCHANGED <<op, query, timeout, cur, wrapped, result>>

\* -------------------------------------------------------- Pool::_get_conn
\* A client thread calls an entry point; `times` is taken before the lock.
Call(t, o, q, tmo) ==
    /\ pc[t] = "idle"
    /\ q = NoQuery <=> o \notin {"prepare", "prep_exec"}
    /\ tmo = 0 <=> o # "try_get_conn"
    /\ pc' = [pc EXCEPT ![t] = "lock"]
    /\ op' = [op EXCEPT ![t] = o]
    /\ query' = [query EXCEPT ![t] = q]
    /\ timeout' = [timeout EXCEPT ![t] = tmo]
    /\ elapsed' = [elapsed EXCEPT ![t] = 0]
    /\ result' = [result EXCEPT ![t] = "None"]
    /\ UNCHANGED <<features, url, opts, poisoned, min, max, count, pool, mutex, rem, id, cur, held, wrapped,
                   unwrapped, stmts>>

\* The entry point of t has returned to its caller.
EndCall(t) ==
    /\ op' = [op EXCEPT ![t] = "none"]
    /\ query' = [query EXCEPT ![t] = NoQuery]
    /\ timeout' = [timeout EXCEPT ![t] = 0]

\* _get_conn returns Ok(PooledConn) with connection c: the caller of get_conn /
\* try_get_conn holds the handle, the other entry points go on with a command.
ReturnOk(t, c) ==
    /\ mutex' = NoThread
    /\ elapsed' = [elapsed EXCEPT ![t] = 0]
    /\ id' = [id EXCEPT ![t] = NoId]
    /\ IF HasCommand(op[t])
       THEN /\ pc' = [pc EXCEPT ![t] = "cmd"]
            /\ cur' = [cur EXCEPT ![t] = c]
            /\ UNCHANGED <<op, query, timeout, held, result>>
       ELSE /\ pc' = [pc EXCEPT ![t] = "idle"]
            /\ cur' = [cur EXCEPT ![t] = NoConn]
            /\ held' = [held EXCEPT ![t] = @ \cup {c}]
            /\ result' = [result EXCEPT ![t] = "Ok"]
            /\ EndCall(t)

\* Mutant: the error comes with a handle for the connection taken.
ReturnErrWithHandle(t, e) ==
    /\ mutex' = NoThread
    /\ elapsed' = [elapsed EXCEPT ![t] = 0]
    /\ id' = [id EXCEPT ![t] = NoId]
    /\ pc' = [pc EXCEPT ![t] = "idle"]
    /\ cur' = [cur EXCEPT ![t] = NoConn]
    /\ result' = [result EXCEPT ![t] = e]
    /\ EndCall(t)
    /\ held' = [held EXCEPT ![t] = @ \cup ({cur[t]} \ {NoConn})]

\* _get_conn returns Err(e); the guard is dropped.
ReturnErr(t, e) ==
    /\ mutex' = NoThread
    /\ elapsed' = [elapsed EXCEPT ![t] = 0]
    /\ id' = [id EXCEPT ![t] = NoId]
    /\ pc' = [pc EXCEPT ![t] = "idle"]
    /\ cur' = [cur EXCEPT ![t] = NoConn]
    /\ result' = [result EXCEPT ![t] = e]
    /\ EndCall(t)
    /\ UNCHANGED held

\* The selection out of idle sequence p (with n connections charged), then
\* the health check when call_ping, else the return.
Checkout(t, i, p, n) ==
    LET k == SelectIndex(p, i)
        c == p[k]
    IN  /\ pool' = RemoveAt(p, k)
        /\ count' = n
        /\ rem' = rem
        /\ IF CallPing(op[t])
           THEN /\ mutex' = t
                /\ pc' = [pc EXCEPT ![t] = "ping"]
                /\ cur' = [cur EXCEPT ![t] = c]
                /\ id' = [id EXCEPT ![t] = NoId]
                /\ elapsed' = [elapsed EXCEPT ![t] = 0]
                /\ UNCHANGED <<op, query, timeout, held, result>>
           ELSE ReturnOk(t, c)

\* Mutant: the connection is counted before Conn::new has returned it.
FailedOpenCharged == count + 1

\* count after new_conn returned Err: nothing was pushed or counted.
FailedOpenCount == count

\* One pass of the wait loop with the mutex held by t and `id` = i, up to
\* the wait or past the selection.  connOk: whether Conn::new succeeds.
Loop(t, i, connOk) ==
    IF pool # <<>>
    THEN Checkout(t, i, pool, count) /\ UNCHANGED stmts
    ELSE IF CanOpen
    THEN IF connOk
         THEN /\ FreeIds # {}
              /\ Checkout(t, i, <<Minimum(FreeIds)>>, count + 1)
              /\ UNCHANGED stmts
         ELSE /\ ReturnErr(t, "ConnErr")
              /\ count' = FailedOpenCount
              /\ UNCHANGED <<pool, rem, stmts>>
    ELSE IF Timed(t) /\ TimedOut(t)
    THEN ReturnErr(t, "Timeout") /\ UNCHANGED <<count, pool, rem, stmts>>
    ELSE /\ mutex' = NoThread
         /\ pc' = [pc EXCEPT ![t] = "wait"]
         /\ rem' = [rem EXCEPT ![t] = IF Timed(t) THEN WaitFor(t) ELSE 0]
         /\ id' = [id EXCEPT ![t] = i]
         /\ UNCHANGED <<count, pool, op, query, timeout, elapsed, cur, held,
                        result, stmts>>

\* inner_pool.lock(), the affinity scan and the first pass of the loop.
Lock(t, connOk) ==
    /\ pc[t] = "lock"
    /\ mutex = NoThread
    /\ IF LockFails
       THEN ReturnErr(t, "PoisonedPoolMutex") /\ UNCHANGED <<count, pool, rem, stmts>>
       ELSE Loop(t, Scan(query[t]), connOk)
    /\ UNCHANGED <<features, url, opts, poisoned, min, max, wrapped, unwrapped>>

\* The wait returns: the mutex is taken again and the loop goes round.
Relock(t, connOk) ==
    /\ pc[t] = "woken"
    /\ mutex = NoThread
    /\ IF LockFails
       THEN ReturnErr(t, "PoisonedPoolMutex") /\ UNCHANGED <<count, pool, rem, stmts>>
       ELSE Loop(t, id[t], connOk)
    /\ UNCHANGED <<features, url, opts, poisoned, min, max, wrapped, unwrapped>>

\* conn.ping(): true, the handle is returned; false, reset comes next.
Ping(t, ok) ==
    /\ pc[t] = "ping"
    /\ IF ok
       THEN ReturnOk(t, cur[t]) /\ UNCHANGED stmts
       ELSE /\ pc' = [pc EXCEPT ![t] = "reset"]
            /\ UNCHANGED <<mutex, op, query, timeout, elapsed, id, cur, held,
                           result, stmts>>
    /\ UNCHANGED <<features, url, opts, poisoned, min, max, count, pool, rem, wrapped, unwrapped>>

\* try!(conn.reset()): on an error the Conn is dropped where it stands, and
\* count stays as it is.
Reset(t, ok) ==
    /\ pc[t] = "reset"
    /\ IF ok
       THEN ReturnOk(t, cur[t]) /\ stmts' = AfterReset(cur[t])
       ELSE ReturnErr(t, "ResetErr") /\ stmts' = [stmts EXCEPT ![cur[t]] = {}]
    /\ UNCHANGED <<features, url, opts, poisoned, min, max, count, pool, rem, wrapped, unwrapped>>

\* Mutant: the Stmt or Transaction is built without the handle.
NewBorrowed(c) == wrapped

\* Stmt::new_pooled(stmt, self) / Transaction::new_pooled(self): the handle
\* moves into the object that is returned.
NewPooled(c) == wrapped \cup {c}

\* pooled_prepare / pooled_prep_exec / pooled_start_transaction succeed: the
\* caller holds the Stmt, QueryResult or Transaction that owns the handle.
CommandOk(t) ==
    /\ pc[t] = "cmd"
    /\ pc' = [pc EXCEPT ![t] = "idle"]
    /\ held' = [held EXCEPT ![t] = @ \cup {cur[t]}]
    /\ wrapped' = NewPooled(cur[t])
    /\ stmts' = AfterPrepare(cur[t], query[t])
    /\ cur' = [cur EXCEPT ![t] = NoConn]
    /\ result' = [result EXCEPT ![t] = "Ok"]
    /\ EndCall(t)
    /\ UNCHANGED <<features, url, opts, poisoned, min, max, count, pool, mutex, elapsed, rem, id, unwrapped>>

\* They fail: `self` is dropped at the end of the function.  cached: the
\* failure is that of Stmt::prep_exec in pooled_prep_exec, after _prepare
\* succeeded; the Stmt that owns the handle is dropped on the way out.
CommandErr(t, cached) ==
    /\ pc[t] = "cmd"
    /\ cached => op[t] = "prep_exec"
    /\ ReturnHandle(t, cur[t], "idle")
    /\ stmts' = IF Discards(cur[t]) THEN ReturnStmts(cur[t])
                ELSE IF cached THEN AfterPrepare(cur[t], query[t]) ELSE stmts
    /\ cur' = [cur EXCEPT ![t] = NoConn]
    /\ result' = [result EXCEPT ![t] = "CmdErr"]
    /\ EndCall(t)
    /\ UNCHANGED <<held, wrapped, unwrapped>>

\* --------------------------------------------------------------- panics
\* A thread panics inside Conn::ping or Conn::reset, which _get_conn calls with
\* the guard alive: unwinding drops the Conn and the guard, and the guard
\* poisons the mutex.  count stays as it is.
Panic(t) ==
    /\ pc[t] \in {"ping", "reset"}
    /\ mutex = t
    /\ poisoned' = TRUE
    /\ mutex' = NoThread
    /\ pc' = [pc EXCEPT ![t] = "dead"]
    /\ stmts' = [stmts EXCEPT ![cur[t]] = {}]
    /\ cur' = [cur EXCEPT ![t] = NoConn]
    /\ EndCall(t)
    /\ UNCHANGED <<features, url, opts, min, max, count, pool, elapsed, rem, id, held, wrapped,
                   unwrapped, result>>

\* `lock().unwrap()` of Drop for PooledConn on a poisoned mutex: the thread
\* that drops a handle (its own, an emptied one after unwrap, or the one of a
\* failed command) panics, and the pool does not see its handles again.
DropPanics(t) ==
    /\ LockFails
    /\ mutex = NoThread
    /\ (pc[t] = "idle" /\ held[t] # {}) \/ pc[t] = "cmd"
    /\ pc' = [pc EXCEPT ![t] = "dead"]
    /\ cur' = [cur EXCEPT ![t] = NoConn]
    /\ EndCall(t)
    /\ UNCHANGED <<features, url, opts, poisoned, min, max, count, pool, mutex, elapsed, rem, id,
                   held, wrapped, unwrapped, stmts, result>>

\* ------------------------------------------------------ condvar and clock
\* Condvar::wait_timeout returns because its duration is over.
TimeoutWake(t) ==
    /\ pc[t] = "wait"
    /\ Timed(t)
    /\ rem[t] = 0
    /\ pc' = [pc EXCEPT ![t] = "woken"]
    /\ UNCHANGED <<features, url, opts, poisoned, min, max, count, pool, mutex, op, query, timeout, elapsed, rem,
                   id, cur, held, wrapped, unwrapped, stmts, result>>

\* Condvar::wait / wait_timeout may return without a notification.
SpuriousWake(t) ==
    /\ pc[t] = "wait"
    /\ pc' = [pc EXCEPT ![t] = "woken"]
    /\ rem' = [rem EXCEPT ![t] = 0]
    /\ UNCHANGED <<features, url, opts, poisoned, min, max, count, pool, mutex, op, query, timeout, elapsed,
                   id, cur, held, wrapped, unwrapped, stmts, result>>

\* The clock of the calls that still read it: those before the selection.
Clocked(t) == Timed(t) /\ pc[t] \in {"lock", "wait", "woken"}

\* One unit of time passes; a wait_timeout that is over returns first.
Tick ==
    /\ \A t \in Threads : pc[t] = "wait" /\ Timed(t) => rem[t] > 0
    /\ \E t \in Threads : Clocked(t)
    /\ elapsed' = [t \in Threads |->
                     IF Clocked(t) /\ elapsed[t] <= timeout[t]
                     THEN elapsed[t] + 1 ELSE elapsed[t]]
    /\ rem' = [t \in Threads |->
                 IF pc[t] = "wait" /\ Timed(t) THEN rem[t] - 1 ELSE rem[t]]
    /\ UNCHANGED <<features, url, opts, poisoned, min, max, count, pool, mutex, pc, op, query, timeout, id, cur,
                   held, wrapped, unwrapped, stmts, result>>

\* ------------------------------------------------------- specifications
\* A step of the pool and its clients; C and R are the outcomes Conn::new and
\* Conn::reset may have (TRUE: Ok).
Step(C, R) ==
    \/ \E t \in Threads, o \in Ops, q \in Queries \cup {NoQuery},
          tmo \in Timeouts \cup {0} : Call(t, o, q, tmo)
    \/ \E t \in Threads, ok \in C : Lock(t, ok)
    \/ \E t \in Threads, ok \in C : Relock(t, ok)
    \/ \E t \in Threads, ok \in BOOLEAN : Ping(t, ok)
    \/ \E t \in Threads, ok \in R : Reset(t, ok)
    \/ \E t \in Threads : CommandOk(t)
    \/ \E t \in Threads, cached \in BOOLEAN : CommandErr(t, cached)
    \/ \E t \in Threads, c \in ConnIds : Drop(t, c)
    \/ \E t \in Threads, c \in ConnIds : Unwrap(t, c)
    \/ \E t \in Threads : TimeoutWake(t)
    \/ \E t \in Threads : SpuriousWake(t)
    \/ Tick

\* Any outcome of the server's side.
Next == Step(BOOLEAN, BOOLEAN)

Spec == Init /\ [][Next]_vars

\* The server stays reachable: connections open and reset (a ping may still
\* find a stale connection, and a command may still be refused).
NextUp == Step({TRUE}, {TRUE})

SpecUp == Init /\ [][NextUp]_vars

\* The code of Conn may also panic.
NextPanic ==
    \/ Next
    \/ \E t \in Threads : Panic(t)
    \/ \E t \in Threads : DropPanics(t)

SpecPanic == Init /\ [][NextPanic]_vars

\* What the scheduler and the clock guarantee: a thread that can take the
\* mutex, finish its I/O or return from an expired wait_timeout does so, and
\* time passes.  Clients need not call, drop or unwrap, and a wait need not
\* return spuriously.
Fairness(C, R) ==
    /\ \A t \in Threads : WF_vars(\E ok \in C : Lock(t, ok))
    /\ \A t \in Threads : WF_vars(\E ok \in C : Relock(t, ok))
    /\ \A t \in Threads : WF_vars(\E ok \in BOOLEAN : Ping(t, ok))
    /\ \A t \in Threads : WF_vars(\E ok \in R : Reset(t, ok))
    /\ \A t \in Threads : WF_vars(CommandOk(t) \/ \E cached \in BOOLEAN : CommandErr(t, cached))
    /\ \A t \in Threads : WF_vars(TimeoutWake(t))
    /\ WF_vars(Tick)

FairSpec == Init /\ [][Next]_vars /\ Fairness(BOOLEAN, BOOLEAN)

FairSpecUp == Init /\ [][NextUp]_vars /\ Fairness({TRUE}, {TRUE})

\* Mutex::lock is eventually granted: a thread that finds the mutex free
\* again and again gets it, though other threads take it in between.
Granted ==
    /\ \A t \in Threads : SF_vars(\E ok \in BOOLEAN : Lock(t, ok))
    /\ \A t \in Threads : SF_vars(\E ok \in BOOLEAN : Relock(t, ok))

\* A pool with a connection for every thread.
InitAmple == Init /\ max >= NumThreads

\* Every thread runs acquire-use-drop sequences, with at most one handle at a
\* time, and no checkout fails: Conn::new and Conn::reset succeed (a ping may
\* still find a stale connection, and a command may still be refused).
NextOneEach ==
    \/ \E t \in Threads, o \in Ops, q \in Queries \cup {NoQuery},
          tmo \in Timeouts \cup {0} : held[t] = {} /\ Call(t, o, q, tmo)
    \/ \E t \in Threads : Lock(t, TRUE)
    \/ \E t \in Threads, ok \in BOOLEAN : Ping(t, ok)
    \/ \E t \in Threads : Reset(t, TRUE)
    \/ \E t \in Threads : CommandOk(t)
    \/ \E t \in Threads, cached \in BOOLEAN : CommandErr(t, cached)
    \/ \E t \in Threads, c \in ConnIds : Drop(t, c)
    \/ Tick

\* The I/O of a health check or a command ends, the mutex is granted to the
\* calls and to the drops, and a thread drops the handle it has.
FairOneEach ==
    /\ \A t \in Threads : SF_vars(Lock(t, TRUE))
    /\ \A t \in Threads : WF_vars(\E ok \in BOOLEAN : Ping(t, ok))
    /\ \A t \in Threads : WF_vars(Reset(t, TRUE))
    /\ \A t \in Threads : WF_vars(CommandOk(t) \/ \E cached \in BOOLEAN : CommandErr(t, cached))
    /\ \A t \in Threads : SF_vars(\E c \in ConnIds : Drop(t, c))

OneEachSpec == InitAmple /\ [][NextOneEach]_vars /\ FairOneEach

\* The clients only take handles, with get_conn and try_get_conn, and give
\* them back or unwrap them; the server's side may fail in any way.
NextGet ==
    \/ \E t \in Threads, o \in {"get_conn", "try_get_conn"},
          tmo \in Timeouts \cup {0} : Call(t, o, NoQuery, tmo)
    \/ \E t \in Threads, ok \in BOOLEAN : Lock(t, ok)
    \/ \E t \in Threads, ok \in BOOLEAN : Relock(t, ok)
    \/ \E t \in Threads, ok \in BOOLEAN : Ping(t, ok)
    \/ \E t \in Threads, ok \in BOOLEAN : Reset(t, ok)
    \/ \E t \in Threads, c \in ConnIds : Drop(t, c)
    \/ \E t \in Threads, c \in ConnIds : Unwrap(t, c)
    \/ \E t \in Threads : TimeoutWake(t)
    \/ \E t \in Threads : SpuriousWake(t)
    \/ Tick

\* The I/O of a health check ends, an expired wait_timeout returns, time
\* passes, and the mutex is granted.
FairGet ==
    /\ \A t \in Threads : WF_vars(\E ok \in BOOLEAN : Ping(t, ok))
    /\ \A t \in Threads : WF_vars(\E ok \in BOOLEAN : Reset(t, ok))
    /\ \A t \in Threads : WF_vars(TimeoutWake(t))
    /\ WF_vars(Tick)
    /\ Granted

GrantedSpec == Init /\ [][NextGet]_vars /\ FairGet

\* ---------------------------------------------------------- Opts::from_url
\* Option and Result values.
None == <<"None">>
Some(x) == <<"Some", x>>
Ok(x) == <<"Ok", x>>
Err(e) == <<"Err", e>>

Features == {"ssl", "socket", "pipe"}

\* The URL texts, piece by piece:
\*   scheme://[username[:password]@]host[:port]path[?key=value&...]
\* path is the text between the authority and `?`, a sequence of characters
\* (empty, or starting with `/`); a text without a scheme, like "42", does
\* not parse.
NoScheme == ""
PathChars == {"/", "a"}
PathTexts ==
    {p \in UNION {[1..k -> PathChars] : k \in 0..MaxPathLen} : p = <<>> \/ p[1] = "/"}
Keys == {"prefer_socket", "verify_peer", "bar"}
Values == {"true", "false", "invalid"}
QueryTexts == UNION {[1..k -> Keys \X Values] : k \in 0..MaxPairs}

Urls ==
    [scheme : {"mysql", "postgres"}, username : {"", "u%40"}, password : {None, Some("pw")},
     host : {"localhost", "[::1]"}, port : {None, Some(DefaultPort + 2)},
     path : PathTexts, query : QueryTexts]
    \cup
    [scheme : {NoScheme}, username : {""}, password : {None}, host : {"42"},
     port : {None}, path : {<<>>}, query : {<<>>}]

\* scheme_type_mapper: only mysql is a relative scheme.
scheme_type_mapper(scheme) == IF scheme = "mysql" THEN "Relative" ELSE "NonRelative"

\* The path segments the url crate makes of a path text in a relative
\* scheme: the text is cut at every `/`, and the piece after the last `/`
\* (or the whole text) is a segment even when it is empty.
RECURSIVE parse_path(_)
parse_path(p) ==
    LET slashes == {i \in 1..Len(p) : p[i] = "/"}
    IN  IF slashes = {} THEN <<p>>
        ELSE LET k == Minimum(slashes)
             IN  <<SubSeq(p, 1, k - 1)>> \o parse_path(SubSeq(p, k + 1, Len(p)))

\* The leading `/` of the path text is skipped first.
parse_path_start(p) == IF p # <<>> /\ p[1] = "/" THEN parse_path(Tail(p)) ELSE parse_path(p)

\* Percent-decoding of the user names of Urls.
lossy_percent_decode(s) == IF s = "u%40" THEN "u@" ELSE s

\* UrlParser::parse: Err for a text without a scheme; the authority and the
\* path are only parsed in a relative scheme.
parse(u) ==
    IF u.scheme = NoScheme THEN Err(<<"Parse">>)
    ELSE Ok([scheme |-> u.scheme,
             relative |-> scheme_type_mapper(u.scheme) = "Relative",
             username |-> u.username, password |-> u.password,
             host |-> u.host, port |-> u.port,
             path |-> parse_path_start(u.path),
             query |-> u.query])

\* Url::domain, Url::port, Url::path and the decoded credentials.
domain(u) == IF u.relative /\ u.host # "[::1]" THEN Some(u.host) ELSE None
port(u) == IF u.relative THEN u.port ELSE None
path(u) == IF u.relative THEN Some(u.path) ELSE None
lossy_percent_decode_username(u) ==
    IF u.relative THEN Some(lossy_percent_decode(u.username)) ELSE None
lossy_percent_decode_password(u) == IF u.relative THEN u.password ELSE None

unwrap_or(o, d) == IF o = None THEN d ELSE o[2]

\* Opts::default() of a build with features f; a field the build does not
\* have is Absent.
Absent == "absent"
Default(f) ==
    [ip_or_hostname |-> Some("127.0.0.1"), tcp_port |-> DefaultPort,
     user |-> None, pass |-> None, db_name |-> None,
     prefer_socket |-> IF f \cap {"socket", "pipe"} # {} THEN TRUE ELSE Absent,
     verify_peer |-> IF "ssl" \in f THEN FALSE ELSE Absent]

\* `match url.path()`: the first segment when the Vec has one.
db_name(u) ==
    IF path(u) = None THEN None
    ELSE IF Len(path(u)[2]) > 0 THEN Some(path(u)[2][1]) ELSE None

from_url_basic(text, f) ==
    LET parsed == parse(text)
        u == parsed[2]
    IN  IF parsed[1] = "Err" THEN parsed
        ELSE IF u.scheme # "mysql" THEN Err(<<"UnsupportedScheme", u.scheme>>)
        ELSE Ok(<<[Default(f) EXCEPT
                       !.user = lossy_percent_decode_username(u),
                       !.pass = lossy_percent_decode_password(u),
                       !.ip_or_hostname =
                           IF domain(u) = None THEN Some("127.0.0.1") ELSE domain(u),
                       !.tcp_port = unwrap_or(port(u), DefaultPort),
                       !.db_name = db_name(u)],
                  u.query>>)

\* Mutant: prefer_socket is only let through in a build with `socket`.
needs_socket(f) == "socket" \notin f

\* `cfg!(all(not(feature = "socket"), not(feature = "pipe")))`.
needs_socket_or_pipe(f) == f \cap {"socket", "pipe"} = {}

\* Mutant: the pairs are gone through from the last one to the first.
RECURSIVE query_pairs_backwards(_, _, _)
query_pairs_backwards(o, pairs, f) ==
    IF pairs = <<>> THEN Ok(o)
    ELSE LET rest == query_pairs_backwards(o, Tail(pairs), f)
             key == pairs[1][1]
             value == pairs[1][2]
         IN  IF rest[1] = "Err" THEN rest
             ELSE IF key = "prefer_socket"
             THEN IF needs_socket_or_pipe(f)
                  THEN Err(<<"FeatureRequired", "`socket' or `pipe'", "prefer_socket">>)
                  ELSE IF value \in {"true", "false"}
                  THEN Ok([rest[2] EXCEPT !.prefer_socket = (value = "true")])
                  ELSE Err(<<"InvalidValue", "prefer_socket", value>>)
             ELSE IF key = "verify_peer"
             THEN IF "ssl" \notin f
                  THEN Err(<<"FeatureRequired", "`ssl'", "verify_peer">>)
                  ELSE IF value \in {"true", "false"}
                  THEN Ok([rest[2] EXCEPT !.verify_peer = (value = "true")])
                  ELSE Err(<<"InvalidValue", "verify_peer", value>>)
             ELSE Err(<<"UnknownParameter", key>>)

\* The loop of from_url over the query pairs still to do.
RECURSIVE query_pairs(_, _, _)
query_pairs(o, pairs, f) ==
    IF pairs = <<>> THEN Ok(o)
    ELSE LET key == pairs[1][1]
             value == pairs[1][2]
         IN  IF key = "prefer_socket"
             THEN IF needs_socket_or_pipe(f)
                  THEN Err(<<"FeatureRequired", "`socket' or `pipe'", "prefer_socket">>)
                  ELSE IF value \in {"true", "false"}
                  THEN query_pairs([o EXCEPT !.prefer_socket = (value = "true")],
                                   Tail(pairs), f)
                  ELSE Err(<<"InvalidValue", "prefer_socket", value>>)
             ELSE IF key = "verify_peer"
             THEN IF "ssl" \notin f
                  THEN Err(<<"FeatureRequired", "`ssl'", "verify_peer">>)
                  ELSE IF value \in {"true", "false"}
                  THEN query_pairs([o EXCEPT !.verify_peer = (value = "true")],
                                   Tail(pairs), f)
                  ELSE Err(<<"InvalidValue", "verify_peer", value>>)
             ELSE Err(<<"UnknownParameter", key>>)

from_url(text, f) ==
    LET basic == from_url_basic(text, f)
    IN  IF basic[1] = "Err" THEN basic
        ELSE query_pairs(basic[2][1], basic[2][2], f)

\* A URL is about to be handed to Opts::from_url in some build.
InitUrl ==
    /\ url \in Urls
    /\ features \in SUBSET Features
    /\ opts = NoOpts
    /\ min = 0 /\ max = 0 /\ count = 0 /\ pool = <<>>
    /\ pc = [t \in Threads |-> "idle"]
    /\ op = [t \in Threads |-> "none"]
    /\ NoCalls

\* Opts::from_url(url).
FromUrl ==
    /\ url # NoUrl
    /\ opts = NoOpts
    /\ opts' = from_url(url, features)
    /\ UNCHANGED <<features, url, poisoned, min, max, count, pool, mutex, pc, op, query,
                   timeout, elapsed, rem, id, cur, held, wrapped, unwrapped, stmts,
                   result>>

NextUrl == FromUrl

SpecUrl == InitUrl /\ [][NextUrl]_vars

\* ------------------------------------------------------------ properties
\* The number of connections handed out in live handles.
RECURSIVE SumHeld(_)
SumHeld(T) ==
    IF T = {} THEN 0
    ELSE LET t == CHOOSE x \in T : TRUE
         IN  Cardinality(held[t]) + SumHeld(T \ {t})

HandedOut == SumHeld(Threads)

\* In this step thread t gave back a handle that held connection c: it dropped
\* the handle (or what owned it), or its command failed.
ReturnsConn(t, c) ==
    \/ pc[t] = "idle" /\ c \in held[t] /\ c \notin held'[t] /\ c \notin unwrapped'
    \/ pc[t] = "cmd" /\ cur[t] = c /\ pc'[t] = "idle" /\ c \notin held'[t]

\* In this step thread t unwrapped connection c.
Unwraps(t, c) == c \in held[t] /\ c \notin unwrapped /\ c \in unwrapped'

\* In this step thread t took the mutex and went through the wait loop.
PassesLoop(t) == pc[t] \in {"lock", "woken"} /\ pc'[t] # pc[t]

\* The waiters this step woke.
Woken == {w \in Waiters : pc'[w] = "woken"}

\* C1: under any interleaving of acquisitions and handle drops, every
\* reachable state has 0 <= idle.len() <= count <= max.
C1_IdleCountMax == 0 <= Len(pool) /\ Len(pool) <= count /\ count <= max

\* C1 witness: the pool is full, with a connection idle, another handed out
\* and an acquisition under way.
C1_Witness ==
    /\ count = max /\ Len(pool) >= 1 /\ HandedOut >= 1
    /\ \E t \in Threads : pc[t] \in {"lock", "ping"}

\* C2: a thread blocked in get_conn (no timeout) does not stay blocked while
\* the pool has room: once a handle is returned, pushed or discarded, the
\* waiter is woken and, under fair scheduling, leaves the wait (or the room
\* is taken by another thread).
C2_WaiterServedAfterReturn ==
    \A t \in Threads :
        (pc[t] = "wait" /\ op[t] = "get_conn" /\ ~Exhausted)
            ~> (pc[t] # "wait" \/ Exhausted)

\* C3: the drop of a handle emptied by unwrap() signals the condition
\* variable, so a thread waiting on the exhausted pool wakes up.
C3_UnwrapSignals ==
    [][\A t \in Threads, c \in ConnIds :
          Unwraps(t, c) /\ Waiters # {} => Woken # {}]_vars

\* C4: at every quiescent point count is the number of idle connections
\* plus the number of connections handed out in live handles.
C4_CountIsIdlePlusHandedOut == Quiescent => count = Len(pool) + HandedOut

\* C5: with the server reachable, count >= min at every quiescent point.
C5_NeverBelowMin == Quiescent => count >= min

\* C6: a try_get_conn that goes through the loop on an exhausted pool waits
\* while its budget lasts and returns Timeout, changing nothing, once it is
\* spent; every handle return leaves the pool not exhausted; and a
\* try_get_conn that finds the pool not exhausted takes a connection and
\* returns Ok with it.
C6_TimeoutThenOk ==
    [][\A t \in Threads :
          /\ (PassesLoop(t) /\ Timed(t) /\ Exhausted) =>
                IF elapsed[t] > timeout[t]
                THEN /\ result'[t] = "Timeout" /\ pc'[t] = "idle"
                     /\ held'[t] = held[t] /\ pool' = pool /\ count' = count
                ELSE pc'[t] = "wait" /\ result'[t] = "None"
          /\ (\E c \in ConnIds : ReturnsConn(t, c) \/ Unwraps(t, c)) => ~Exhausted'
          /\ (PassesLoop(t) /\ Timed(t) /\ ~Exhausted) =>
                pc'[t] = "ping" /\ cur'[t] # NoConn
          /\ (pc[t] \in {"ping", "reset"} /\ Timed(t) /\ pc'[t] = "idle") =>
                result'[t] = "Ok" /\ held'[t] = held[t] \cup {cur[t]}
      ]_vars

\* C6 witness: a try_get_conn has returned Timeout, a handle was dropped since
\* (the pool is no longer exhausted) and another try_get_conn has returned Ok.
C6_Witness ==
    \E t, u \in Threads :
        /\ result[t] = "Timeout" /\ result[u] = "Ok" /\ held[u] # {}
        /\ ~Exhausted

\* C7: each wait of try_get_conn(t) on the condition variable is for the
\* remaining budget, t minus the time elapsed since the call started.
C7_WaitsForRemainingBudget ==
    [][\A t \in Threads :
          (Timed(t) /\ pc[t] # "wait" /\ pc'[t] = "wait") =>
              rem'[t] = timeout[t] - elapsed[t]]_vars

\* C8 as stated: a try_get_conn waiter whose budget has elapsed when it takes
\* the mutex again returns Timeout, whatever the pool state.
C8_ExpiredWaiterTimesOut ==
    [][\A t \in Threads :
          (pc[t] = "woken" /\ Timed(t) /\ elapsed[t] > timeout[t] /\ PassesLoop(t))
              => result'[t] = "Timeout"]_vars

\* C8 amended: such a waiter returns Timeout when the pool is still exhausted
\* (idle empty and count >= max) and leaves the pool as it is; when a
\* connection is idle or may be opened it goes on with that instead and does
\* not return Timeout.
C8_ExpiredWaiterTimesOutIfExhausted ==
    [][\A t \in Threads :
          (pc[t] = "woken" /\ Timed(t) /\ elapsed[t] > timeout[t] /\ PassesLoop(t))
              => IF Exhausted
                 THEN /\ result'[t] = "Timeout" /\ pc'[t] = "idle"
                      /\ pool' = pool /\ count' = count
                 ELSE result'[t] # "Timeout" /\ pc'[t] # "wait"]_vars

\* C8 witness: a waiter's budget is spent, an idle connection has turned up
\* meanwhile, and the waiter is about to take the mutex again.
C8_Witness ==
    \E t \in Threads :
        /\ pc[t] = "woken" /\ Timed(t) /\ elapsed[t] > timeout[t]
        /\ pool # <<>> /\ mutex = NoThread

\* C9: when a handle that holds its connection is dropped with count > min,
\* count goes down by one and the connection is discarded, idle unchanged;
\* otherwise the connection is appended at the tail of idle, count is
\* unchanged and one waiter (if any waits) is signalled, no more.
C9_ReturnDiscipline ==
    [][\A t \in Threads, c \in ConnIds :
          ReturnsConn(t, c) =>
              IF count > min
              THEN count' = count - 1 /\ pool' = pool
              ELSE /\ pool' = Append(pool, c)
                   /\ count' = count
                   /\ Cardinality(Woken) = IF Waiters = {} THEN 0 ELSE 1]_vars

\* C9 witness: a handle was given back at count = min: its connection is at
\* the tail of idle and a waiter has been signalled.
C9_Witness ==
    /\ count = min /\ pool # <<>>
    /\ \E w \in Threads : pc[w] = "woken" /\ ~Timed(w)
    /\ HandedOut = 0

\* C10: unwrap() takes exactly one off count whatever min is, leaves idle
\* unchanged, and the unwrapped connection is never again idle, in a handle
\* or being checked out.
C10_UnwrapDetaches ==
    /\ [][\A t \in Threads, c \in ConnIds :
             Unwraps(t, c) =>
                 /\ count' = count - 1
                 /\ pool' = pool
                 /\ c \notin UNION {held'[x] : x \in Threads}]_vars
    /\ [](unwrapped \cap (Range(pool) \cup HeldAll \cup Taken) = {})

\* C10 witness: a connection was unwrapped and count is below min.
C10_Witness == unwrapped # {} /\ count < min

\* The threads whose live handles hold connection c.
Holders(c) == {t \in Threads : c \in held[t]}

\* C11: a connection is owned by at most one party at any time: it is not
\* at once idle and in a live handle (or being checked out), not in the
\* handles of two threads, not twice in idle; and a handle is only ever made
\* for a connection that no handle holds and that has left idle.
C11_ExclusiveOwnership ==
    /\ [](/\ \A i, j \in 1..Len(pool) : pool[i] = pool[j] => i = j
          /\ Range(pool) \cap (HeldAll \cup Taken) = {}
          /\ HeldAll \cap Taken = {}
          /\ \A t, u \in Threads :
                t # u => /\ held[t] \cap held[u] = {}
                         /\ cur[t] # NoConn => cur[t] # cur[u])
    /\ [][\A t \in Threads :
             /\ \A c \in held'[t] \ held[t] :
                    c \notin HeldAll /\ c \notin Range(pool') /\ cur[t] = c
             /\ (cur'[t] # NoConn /\ cur'[t] # cur[t]) =>
                    /\ cur'[t] \notin HeldAll \cup Taken
                    /\ cur'[t] \notin Range(pool')]_vars

\* C11 witness: one thread holds a handle while the other is checking a
\* connection out, with every connection of the pool taken.
C11_Witness ==
    \E t, u \in Threads :
        /\ t # u /\ held[t] # {} /\ count = max /\ pool = <<>>
        /\ pc[u] = "ping" /\ cur[u] # NoConn

\* What the return discipline does with connection c in this step.
Disciplined(c) ==
    IF count > min
    THEN count' = count - 1 /\ pool' = pool
    ELSE count' = count /\ pool' = Append(pool, c)

\* C12: a connection acquired by Pool::prepare, Pool::prep_exec or
\* Pool::start_transaction goes through the return discipline exactly once:
\* when the command succeeds its handle lives in the returned object, and
\* the connection is neither idle nor leased to anyone else until that
\* object is dropped, which returns it; when the command fails it is
\* returned in that very step.
C12_PooledReturnOnce ==
    /\ [](\A c \in wrapped :
            /\ c \notin Range(pool) /\ c \notin Taken
            /\ Cardinality(Holders(c)) = 1)
    /\ [][\A t \in Threads :
             (pc[t] = "cmd" /\ pc'[t] # "cmd") =>
                 IF result'[t] = "Ok"
                 THEN /\ cur[t] \in held'[t] /\ cur[t] \in wrapped'
                      /\ pool' = pool /\ count' = count
                 ELSE /\ result'[t] = "CmdErr"
                      /\ cur[t] \notin UNION {held'[x] : x \in Threads}
                      /\ cur[t] \notin wrapped'
                      /\ Disciplined(cur[t])]_vars
    /\ [][\A c \in wrapped :
             c \notin wrapped' =>
                 /\ \E t \in Threads : ReturnsConn(t, c)
                 /\ Disciplined(c)]_vars

\* C12 witness: a pooled statement or transaction is alive while the other
\* thread waits for a connection.
C12_Witness ==
    \E t, u \in Threads :
        /\ held[t] \cap wrapped # {}
        /\ pc[u] = "wait" /\ result[t] = "Ok"

\* The idle positions whose connection has statement q cached.
Hits(q) == {i \in 1..Len(pool) : q \in stmts[pool[i]]}

\* idle without position k.
Without(k) == SubSeq(pool, 1, k - 1) \o SubSeq(pool, k + 1, Len(pool))

\* C13: when prepare(S) or prep_exec(S) takes the mutex and idle holds a
\* connection with S cached, the connection handed out is the first such
\* connection in idle order, and the others stay idle in the same order.
C13_Affinity ==
    [][\A t \in Threads :
          (/\ pc[t] = "lock" /\ PassesLoop(t)
           /\ op[t] \in {"prepare", "prep_exec"}
           /\ Hits(query[t]) # {}) =>
              LET k == Minimum(Hits(query[t]))
              IN  /\ cur'[t] = pool[k] /\ pc'[t] = "cmd"
                  /\ pool' = Without(k)]_vars

\* C13 witness: a prepare is about to take the mutex, two connections are
\* idle, and the one with the statement cached is not the tail.
C13_Witness ==
    \E t \in Threads :
        /\ pc[t] = "lock" /\ op[t] \in {"prepare", "prep_exec"} /\ mutex = NoThread
        /\ Len(pool) = 2
        /\ query[t] \in stmts[pool[1]] /\ query[t] \notin stmts[pool[2]]

\* C14: an acquisition without a hint, and one whose hint matches no idle
\* connection, takes the tail of idle; and the tail is where a returned
\* connection is put.
C14_LifoDefault ==
    [][\A t \in Threads :
          /\ (/\ PassesLoop(t) /\ pool # <<>>
              /\ op[t] \notin {"prepare", "prep_exec"} \/ Hits(query[t]) = {}) =>
                 /\ cur'[t] = pool[Len(pool)]
                 /\ pool' = SubSeq(pool, 1, Len(pool) - 1)
          /\ \A c \in ConnIds :
                (ReturnsConn(t, c) /\ pool' # pool) =>
                    pool' = Append(pool, c)]_vars

\* C14 witness: a get_conn has taken a connection out of idle (nothing is
\* handed out, so it was not opened for it) and left another one there.
C14_Witness ==
    \E t \in Threads :
        /\ pc[t] = "ping" /\ op[t] \in {"get_conn", "try_get_conn"}
        /\ pool # <<>> /\ HandedOut = 0 /\ count = Len(pool) + 1

\* The thread that ran the constructor, once it has returned.
Constructed(t) == pc[t] = "idle" /\ result[t] # "None"

\* C15: construction returns InvalidPoolConstraints exactly when min > max
\* or max = 0, and then without having opened a connection; Pool::new
\* constructs with min = 10 and max = 100.
C15_InvalidPoolConstraints ==
    /\ [](\A t \in Threads :
            Constructed(t) =>
                (result[t] = "InvalidPoolConstraints" <=> (min > max \/ max = 0)))
    /\ [][\A t \in Threads :
             (result'[t] = "InvalidPoolConstraints" /\ result[t] = "None") =>
                 /\ pc[t] = "new" /\ count = 0 /\ pool = <<>>
                 /\ count' = 0 /\ pool' = <<>>]_vars
    /\ [](\A t \in Threads : op[t] = "new" => min = 10 /\ max = 100)

\* C15 witness: new_manual(1, 0) has returned InvalidPoolConstraints.
C15_Witness ==
    \E t \in Threads :
        Constructed(t) /\ result[t] = "InvalidPoolConstraints" /\ min = 1 /\ max = 0

\* C16: after a successful construction count = idle.len() = min; when one
\* of the min opens fails the constructor returns that error and nothing is
\* left of the pool it was building.
C16_WarmUp ==
    /\ [](\A t \in Threads :
            Constructed(t) =>
                /\ result[t] = "Ok" => count = min /\ Len(pool) = min /\ min <= max
                /\ result[t] # "Ok" => count = 0 /\ pool = <<>>)
    /\ [][\A t \in Threads :
             (pc[t] = "warm" /\ count' # count + 1) =>
                 Constructed(t)' /\ result'[t] = "ConnErr"]_vars

\* C16 witness: a warm-up of two connections has succeeded.
C16_Witness ==
    \E t \in Threads :
        Constructed(t) /\ result[t] = "Ok" /\ min = 2 /\ Len(pool) = 2

\* C17: when the ping of a checkout fails and the reset that follows fails
\* too, the caller gets the reset error and no handle, the connection does
\* not go back to idle, and count is not decremented.
C17_FailedResetKeepsSlot ==
    [][\A t \in Threads :
          /\ (pc'[t] = "reset" /\ pc[t] # "reset") => pc[t] = "ping"
          /\ (pc[t] = "reset" /\ pc'[t] = "idle" /\ result'[t] # "Ok") =>
                /\ result'[t] = "ResetErr"
                /\ held' = held /\ cur'[t] = NoConn
                /\ pool' = pool /\ cur[t] \notin Range(pool')
                /\ count' = count]_vars

\* C17 witness: a checkout has ended with the reset error and nothing is in
\* flight: count is above the idle plus the handed out connections.
C17_Witness ==
    /\ Quiescent
    /\ \E t \in Threads : result[t] = "ResetErr"
    /\ count = Len(pool) + HandedOut + 1

\* C18: once a thread has panicked with the mutex held, the mutex stays
\* poisoned; every acquisition that takes the mutex from then on, at its
\* start or when its wait returns, ends with PoisonedPoolMutex and without
\* a handle, leaving the pool as it is; no connection is selected any more.
C18_PoisonedForGood ==
    /\ [][poisoned => poisoned']_vars
    /\ [][\A t \in Threads :
             poisoned =>
                 /\ PassesLoop(t) =>
                        /\ result'[t] = "PoisonedPoolMutex" /\ pc'[t] = "idle"
                        /\ held' = held /\ pool' = pool /\ count' = count
                 /\ cur'[t] \in {cur[t], NoConn}
                 /\ pc'[t] \in {"ping", "reset"} => pc[t] = pc'[t]]_vars
    /\ [](poisoned => \A t \in Threads : pc[t] \notin {"ping", "reset"})

\* C18 witness: one thread has panicked during the health check and the
\* other has got PoisonedPoolMutex.
C18_Witness ==
    \E t, u \in Threads :
        poisoned /\ pc[t] = "dead" /\ result[u] = "PoisonedPoolMutex"

\* The entry points with call_ping = true.
Pingers == {"get_conn", "try_get_conn", "start_transaction"}

\* C19: get_conn, try_get_conn and start_transaction ping the connection
\* they selected and reset it only after a failed ping; prepare and
\* prep_exec go from the selection to their command, with no ping or reset.
C19_HealthCheckPolicy ==
    [][\A t \in Threads :
          /\ (PassesLoop(t) /\ cur'[t] # NoConn) =>
                IF op[t] \in Pingers THEN pc'[t] = "ping" ELSE pc'[t] = "cmd"
          /\ (pc'[t] = "ping" /\ pc[t] # "ping") => op[t] \in Pingers
          /\ (pc'[t] = "reset" /\ pc[t] # "reset") =>
                pc[t] = "ping" /\ op[t] \in Pingers
          /\ (pc[t] = "ping" /\ pc'[t] \notin {"ping", "reset"}) =>
                /\ stmts' = stmts
                /\ pc'[t] = "cmd" \/ (pc'[t] = "idle" /\ result'[t] = "Ok")
          /\ op[t] \in {"prepare", "prep_exec"} => pc'[t] \notin {"ping", "reset"}
      ]_vars

\* C19 witness: a start_transaction is resetting the connection whose ping
\* failed while a prep_exec runs its command on the connection it took.
C19_Witness ==
    \E t, u \in Threads :
        /\ pc[t] = "reset" /\ op[t] = "start_transaction"
        /\ pc[u] = "cmd" /\ op[u] = "prep_exec"

\* The first path segment of the URL text.
FirstSegment == parse_path_start(url.path)[1]

\* C20: from_url takes db_name from the path: the first path segment when
\* there is one and it is not empty, None for a URL without a path or with
\* an empty first segment.
C20_DbNameFromFirstSegment ==
    (opts # NoOpts /\ opts[1] = "Ok") =>
        opts[2].db_name = IF FirstSegment # <<>> THEN Some(FirstSegment) ELSE None

\* The error kinds in the stated order of precedence.
Precedence ==
    <<"UnsupportedScheme", "Parse", "FeatureRequired", "InvalidValue", "UnknownParameter">>

\* The first of the kinds K in the order of precedence.
Highest(K) == Precedence[Minimum({i \in 1..Len(Precedence) : Precedence[i] \in K})]

\* Whether the feature behind a recognized key is compiled in.
Enabled(key) ==
    IF key = "prefer_socket" THEN features \cap {"socket", "pipe"} # {}
    ELSE "ssl" \in features

\* The error kinds that apply to the URL text as a whole and to one pair.
UrlKinds ==
    IF url.scheme = NoScheme THEN {"Parse"}
    ELSE IF url.scheme # "mysql" THEN {"UnsupportedScheme"} ELSE {}

PairKinds(pair) ==
    IF pair[1] \notin {"prefer_socket", "verify_peer"} THEN {"UnknownParameter"}
    ELSE (IF Enabled(pair[1]) THEN {} ELSE {"FeatureRequired"})
         \cup (IF pair[2] \in {"true", "false"} THEN {} ELSE {"InvalidValue"})

\* The positions of the faulty query pairs.
Faulty == {i \in 1..Len(url.query) : PairKinds(url.query[i]) # {}}

AllKinds == UrlKinds \cup UNION {PairKinds(url.query[i]) : i \in Faulty}

Returned == opts # NoOpts

\* C21 as stated: for a URL to which error kinds apply, from_url returns the
\* error of the kind that is highest in the order of precedence.
C21_HighestErrorWins ==
    (Returned /\ AllKinds # {}) =>
        opts[1] = "Err" /\ opts[2][1] = Highest(AllKinds)

\* C21 amended: from_url returns one error, the first it meets: the error of
\* the URL text as a whole (Parse, UnsupportedScheme) before any error of a
\* query pair, then the error of the first faulty pair in the order of the
\* URL, which is the highest of the kinds that apply to that pair; and it
\* returns Ok when no error applies.
C21_FirstErrorWins ==
    Returned =>
        IF UrlKinds # {} THEN opts[1] = "Err" /\ opts[2][1] = Highest(UrlKinds)
        ELSE IF Faulty # {}
        THEN /\ opts[1] = "Err"
             /\ opts[2][1] = Highest(PairKinds(url.query[Minimum(Faulty)]))
             /\ opts[2][Len(opts[2])] \in
                   {url.query[Minimum(Faulty)][1], url.query[Minimum(Faulty)][2]}
        ELSE opts[1] = "Ok"

\* C21 witness: from_url has returned for a URL whose first faulty pair is
\* of a lower kind than a later one.
C21_Witness ==
    /\ Returned /\ UrlKinds = {} /\ Len(url.query) = 2
    /\ PairKinds(url.query[1]) = {"UnknownParameter"}
    /\ "FeatureRequired" \in PairKinds(url.query[2])

\* No pair before position i is faulty: the loop of from_url gets to pair i.
Reached(i) == \A j \in 1..(i - 1) : PairKinds(url.query[j]) = {}

\* The feature named in FeatureRequired for a recognized key.
FeatureOf(key) == IF key = "prefer_socket" THEN "`socket' or `pipe'" ELSE "`ssl'"

\* The positions of the pairs with this key, and the value of the last one.
Occurrences(key) == {i \in 1..Len(url.query) : url.query[i][1] = key}

LastValue(key) ==
    url.query[CHOOSE i \in Occurrences(key) : \A j \in Occurrences(key) : j <= i][2]

C23_HealthCheckOutsideMutex ==
    \A t \in Threads : pc[t] \in {"ping", "reset"} => mutex # t

\* C24: an acquisition opens a connection only when idle is empty and
\* count < max, never while a connection is idle; it waits only when idle is
\* empty and count >= max; and a thread that wakes up goes through the same
\* tests, with the mutex, before it selects.
C24_WaitLoop ==
    [][\A t \in Threads :
          /\ PassesLoop(t) =>
                /\ mutex = NoThread
                /\ count' \in {count, count + 1}
                /\ (count' = count + 1 \/ result'[t] = "ConnErr") =>
                      pool = <<>> /\ count < max
                /\ pc'[t] = "wait" => pool = <<>> /\ count >= max
                /\ pool # <<>> => count' = count /\ cur'[t] \in Range(pool)
                /\ (pc[t] = "woken" /\ Exhausted) =>
                      /\ cur'[t] = NoConn
                      /\ pc'[t] = "wait" \/ result'[t] = "Timeout"
          /\ (pc'[t] = "wait" /\ pc[t] # "wait") => PassesLoop(t)
          /\ count' > count => \E u \in Threads : PassesLoop(u)
      ]_vars

\* C24 witness: a waiter has woken up with the pool still exhausted and is
\* about to take the mutex and test again.
C24_Witness ==
    \E t \in Threads : pc[t] = "woken" /\ Exhausted /\ mutex = NoThread

\* The errors of an acquisition that got no connection.
NoConnErrors == {"Timeout", "ConnErr"}

\* C25: with no more threads than max, at most one handle per thread at a
\* time and no failed checkout, no acquisition waits on the condition
\* variable, count <= max throughout, every call returns without an error of
\* the acquisition, and every handle taken is dropped in the end.
C25_AmpleNeverBlocks ==
    /\ [](\A t \in Threads : pc[t] \notin {"wait", "woken"})
    /\ [](count <= max)
    /\ [](\A t \in Threads : result[t] \in {"None", "Ok", "CmdErr"})
    /\ \A t \in Threads : (pc[t] # "idle") ~> (pc[t] = "idle")
    /\ \A t \in Threads : (held[t] # {}) ~> (held[t] = {})

\* C25 witness: every thread has its handle and the pool is at max.
C25_Witness ==
    /\ \A t \in Threads : held[t] # {}
    /\ count = max /\ max = NumThreads /\ pool = <<>>

\* C26: an acquisition that ends with Timeout or with the error of opening
\* a connection has changed nothing in the pool: neither the step that
\* returns the error nor the waits before it touch idle, count, min or max,
\* and such an error never comes after a connection was selected.
C26_FailedAcquisitionFrame ==
    [][\A t \in Threads :
          /\ (result'[t] \in NoConnErrors /\ result'[t] # result[t]) =>
                /\ PassesLoop(t)
                /\ pool' = pool /\ count' = count /\ min' = min /\ max' = max
          /\ (PassesLoop(t) /\ pc'[t] = "wait") =>
                pool' = pool /\ count' = count /\ min' = min /\ max' = max
          /\ pc[t] \in {"ping", "reset", "cmd"} => result'[t] \notin NoConnErrors
      ]_vars

\* C26 witness: one acquisition has ended with Timeout and one with the
\* error of Conn::new.
C26_Witness ==
    \E t, u \in Threads : result[t] = "Timeout" /\ result[u] = "ConnErr"

\* C28: an affinity index is recorded only with idle non-empty, and then the
\* thread selects in the same hold of the mutex: the index is within idle,
\* the connection removed is the one that matched, the fallback to the last
\* element is not taken, and no thread waits or wakes up with an index.
C28_IndexNeverStale ==
    /\ [](\A t \in Threads : pc[t] \in {"wait", "woken"} => id[t] = NoId)
    /\ [][\A t \in Threads :
             (pc[t] = "lock" /\ PassesLoop(t) /\ Scan(query[t]) # NoId) =>
                 /\ pool # <<>> /\ pc'[t] # "wait"
                 /\ Scan(query[t]) <= Len(pool)
                 /\ Hits(query[t]) # {}
                 /\ cur'[t] = pool[Minimum(Hits(query[t]))]
                 /\ query[t] \in stmts[cur'[t]]
                 /\ pool' = Without(Minimum(Hits(query[t])))]_vars

\* C28 witness: a prep_exec has taken the idle connection with its statement
\* cached and left the tail of idle, which has not got it.
C28_Witness ==
    \E t \in Threads :
        /\ pc[t] = "cmd" /\ op[t] = "prep_exec" /\ query[t] \in stmts[cur[t]]
        /\ pool # <<>> /\ HandedOut = 0

\* C29: the bookkeeping does not fault: a selection takes from a non-empty
\* idle (one of the idle connections, or the one just opened when idle was
\* empty), and count only goes down by one, from a value of at least 1.
C29_NoFault ==
    /\ [](count >= 0)
    /\ [][\A t \in Threads :
             /\ (PassesLoop(t) /\ cur'[t] # NoConn) =>
                    IF pool # <<>> THEN cur'[t] \in Range(pool)
                    ELSE count' = count + 1 /\ cur'[t] \notin Live
             /\ count' < count => count >= 1 /\ count' = count - 1]_vars

\* C29 witness: count is down to 0 below min after an unwrap, with a failed
\* checkout behind.
C29_Witness ==
    /\ count = 0 /\ min > 0 /\ unwrapped # {}
    /\ \E t \in Threads : result[t] \in {"ResetErr", "ConnErr"}

\* C27: every try_get_conn call terminates: with the clock advancing and the
\* mutex eventually granted, a call in progress returns (a handle, Timeout
\* or another error), whatever the other threads do.
C27_TryGetConnTerminates ==
    \A t \in Threads :
        (op[t] = "try_get_conn" /\ pc[t] # "idle") ~> pc[t] = "idle"

\* C27 witness: a try_get_conn has come back with Timeout while the other
\* thread still holds every connection the pool may have.
C27_Witness ==
    \E t \in Threads :
        /\ pc[t] = "idle" /\ result[t] = "Timeout"
        /\ count = max /\ pool = <<>> /\ held[t] = {}

=============================================================================
